---- MODULE Spec2Model ----
(***************************************************************************)
(* Habit tracker: the streak and badge engine (backend/utils/streaks.js,   *)
(* backend/utils/badges.js) over the HabitLog collection, together with    *)
(* the route that writes the collection (POST /api/tracking/log).          *)
(*                                                                         *)
(* Time.  A JavaScript Date is an instant; the model counts instants in    *)
(* minutes since 1970-01-01T00:00Z.  A date string "YYYY-MM-DD" is the     *)
(* triple <<YYYY, MM, DD>> of its three numeric fields, so that strings    *)
(* the route accepts but the calendar does not have ("2024-13-01",         *)
(* "2023-02-30") are values of the model too.                              *)
(***************************************************************************)
EXTENDS Integers, Sequences, FiniteSets, TLC

VARIABLES
    habits,     \* Habit collection: set of [id, userId, name]; a name is
                \* the sequence of its characters
    logs,       \* HabitLog collection: set of [userId, habitId, date, completed]
    now,        \* the server clock: the instant new Date() returns
    tz,         \* the server's local time zone (process environment)
    resp,       \* the value returned by the last call / request
    reqs,       \* requests whose handler is suspended at an await, with the
                \* requests that were answered: sequence of records
    users       \* User collection: set of [id, name, email, password], the
                \* password as its hash

vars == <<habits, logs, now, tz, resp, reqs, users>>

----------------------------------------------------------------------------
(* Calendar arithmetic of Date (proleptic Gregorian, as ECMAScript).       *)

MinutesPerDay == 24 * 60

\* Day number (days since 1970-01-01) of year y, month m (1..12), day d.
\* Linear in d: a day past the end of the month rolls into the next month,
\* which is what MakeDay does with the fields V8's parser hands it.
DaysFromCivil(y, m, d) ==
    LET yy  == IF m <= 2 THEN y - 1 ELSE y
        era == yy \div 400
        yoe == yy - era * 400
        mp  == IF m > 2 THEN m - 3 ELSE m + 9
        doy == (153 * mp + 2) \div 5 + d - 1
        doe == yoe * 365 + yoe \div 4 - yoe \div 100 + doy
    IN  era * 146097 + doe - 719468

\* The calendar date <<y, m, d>> of a day number.
CivilFromDays(z) ==
    LET zz  == z + 719468
        era == zz \div 146097
        doe == zz - era * 146097
        yoe == (doe - doe \div 1460 + doe \div 36524 - doe \div 146096) \div 365
        doy == doe - (365 * yoe + yoe \div 4 - yoe \div 100)
        mp  == (5 * doy + 2) \div 153
        d   == doy - (153 * mp + 2) \div 5 + 1
        m   == IF mp < 10 THEN mp + 3 ELSE mp - 9
        y   == yoe + era * 400
    IN  <<IF m <= 2 THEN y + 1 ELSE y, m, d>>

\* date.toISOString().split('T')[0]: the UTC calendar date of an instant.
ToISODate(t) == CivilFromDays(t \div MinutesPerDay)

\* The value NaN of an Invalid Date.
NaN == -1

\* new Date("YYYY-MM-DD"): a date-only string is read as UTC midnight.  The
\* parser accepts a month in 1..12 and a day in 1..31 whatever the month
\* (the surplus days roll over); anything else gives an Invalid Date.
ParseDate(s) ==
    IF s[2] \in 1..12 /\ s[3] \in 1..31
    THEN DaysFromCivil(s[1], s[2], s[3]) * MinutesPerDay
    ELSE NaN

\* The order of date strings (sort({date: 1}) compares strings): for four
\* digit years and two digit fields it is the order of these codes.
DateCode(s) == s[1] * 10000 + s[2] * 100 + s[3]

\* A date string that names a day of the calendar.
IsCalendarDate(s) == ParseDate(s) # NaN /\ ToISODate(ParseDate(s)) = s

----------------------------------------------------------------------------
(* The server's local time zone.  A zone is a standard offset (minutes     *)
(* east of UTC) and the periods [from, to) of UTC instants during which    *)
(* the clocks are one hour ahead of it.                                    *)

At(y, m, d, h) == DaysFromCivil(y, m, d) * MinutesPerDay + h * 60

ZoneUTC == [name |-> "UTC", std |-> 0, dst |-> {}]

ZoneNewYork ==
    [name |-> "America/New_York", std |-> -300,
     dst  |-> { <<At(2022, 3, 13, 7), At(2022, 11, 6, 6)>>,
                <<At(2023, 3, 12, 7), At(2023, 11, 5, 6)>>,
                <<At(2024, 3, 10, 7), At(2024, 11, 3, 6)>>,
                <<At(2025, 3,  9, 7), At(2025, 11, 2, 6)>> }]

ZoneLondon ==
    [name |-> "Europe/London", std |-> 0,
     dst  |-> { <<At(2022, 3, 27, 1), At(2022, 10, 30, 1)>>,
                <<At(2023, 3, 26, 1), At(2023, 10, 29, 1)>>,
                <<At(2024, 3, 31, 1), At(2024, 10, 27, 1)>>,
                <<At(2025, 3, 30, 1), At(2025, 10, 26, 1)>> }]

ZoneKolkata == [name |-> "Asia/Kolkata", std |-> 330, dst |-> {}]

Zones == {ZoneUTC, ZoneNewYork, ZoneLondon, ZoneKolkata}

InDST(z, t) == \E p \in z.dst : p[1] <= t /\ t < p[2]

\* Offset of local time from UTC at the instant t.
Offset(z, t) == IF InDST(z, t) THEN z.std + 60 ELSE z.std

\* LocalTime(t): the local wall-clock reading of the instant t.
LocalTime(z, t) == t + Offset(z, t)

\* UTC(local): the instant of a wall-clock reading.  A reading that occurs
\* twice (clocks set back) or never (clocks set forward) is read with the
\* offset in force before the transition.
UTCOfLocal(z, w) ==
    IF InDST(z, w - (z.std + 60)) THEN w - (z.std + 60) ELSE w - z.std

\* date.setDate(date.getDate() - 1): the same wall-clock time on the
\* previous local calendar day.
PreviousLocalDay(z, t) == UTCOfLocal(z, LocalTime(z, t) - MinutesPerDay)

----------------------------------------------------------------------------
(* HabitLog queries.                                                       *)

\* The filter without the habit: the completed days of all the user's
\* habits.
CompletedDatesAnyHabit(store, habitId, userId) ==
    { l.date : l \in { r \in store : r.userId = userId /\ r.completed } }

\* HabitLog.find({habitId, userId, completed: true}).select('date')
CompletedDates(store, habitId, userId) ==
    { l.date : l \in { r \in store : /\ r.habitId = habitId
                                      /\ r.userId = userId
                                      /\ r.completed } }

RECURSIVE SortRange(_, _, _)
\* The dates of S, all with codes in lo..hi, in ascending string order.
SortRange(S, lo, hi) ==
    IF S = {} THEN << >>
    ELSE IF lo = hi \/ Cardinality(S) = 1 THEN << CHOOSE s \in S : TRUE >>
    ELSE LET mid == (lo + hi) \div 2
         IN  SortRange({ s \in S : DateCode(s) <= mid }, lo, mid)
             \o SortRange({ s \in S : DateCode(s) > mid }, mid + 1, hi)

\* .sort({ date: 1 }): ascending by the date string.
SortAscending(S) == SortRange(S, 0, 99999999)

----------------------------------------------------------------------------
(* utils/streaks.js: calculateStreak                                       *)

\* The safety check of the walk: "don't go back more than 2 years".
SafetyLimit == 730

\* Iterations of the walk that are followed before it is reported as not
\* terminating.
WalkFuel == 740

\* The walk has counted  streak  days and stops when the check fires.
SafetyCheck(streak) == streak > SafetyLimit

\* A walk that starts from yesterday instead of today.
WalkStartYesterday(clock) == ParseDate(ToISODate(clock - MinutesPerDay))

\* The cursor when the walk starts: new Date(todayStr), with todayStr the
\* UTC date of the clock.
WalkStart(clock) == ParseDate(ToISODate(clock))

\* One iteration of  while (true) { ... }  on the loop's variables.
WalkBody(z, completedDates, s) ==
    LET dateStr == ToISODate(s.currentDate)
    IN  IF dateStr \in completedDates
        THEN [ currentDate |-> PreviousLocalDay(z, s.currentDate),
               streak      |-> s.streak + 1,
               running     |-> ~ SafetyCheck(s.streak + 1) ]
        ELSE [ s EXCEPT !.running = FALSE ]

RECURSIVE Walk(_, _, _, _)
\* The loop: WalkBody repeated until a break, at most  fuel  times.  (The
\* iterations are split in halves only to keep the evaluation shallow.)
Walk(z, completedDates, s, fuel) ==
    IF ~ s.running \/ fuel = 0 THEN s
    ELSE IF fuel = 1 THEN WalkBody(z, completedDates, s)
    ELSE Walk(z, completedDates,
              Walk(z, completedDates, s, fuel \div 2), fuel - fuel \div 2)

\* The loop variables when calculateStreak leaves the loop (or runs out of
\* fuel, still running).
StreakWalk(store, habitId, userId, clock, z) ==
    Walk(z, CompletedDates(store, habitId, userId),
         [ currentDate |-> WalkStart(clock), streak |-> 0, running |-> TRUE ],
         WalkFuel)

\* calculateStreak(habitId, userId)
calculateStreak(store, habitId, userId, clock, z) ==
    IF CompletedDates(store, habitId, userId) = {} THEN 0
    ELSE StreakWalk(store, habitId, userId, clock, z).streak

\* calculateStreak returns: its walk comes to a break.
StreakTerminates(store, habitId, userId, clock, z) ==
    \/ CompletedDates(store, habitId, userId) = {}
    \/ ~ StreakWalk(store, habitId, userId, clock, z).running

----------------------------------------------------------------------------
(* utils/streaks.js: getLongestStreak                                      *)

Max(a, b) == IF a >= b THEN a ELSE b

\* An Invalid Date: every comparison and difference with it is NaN.
IsNaN(t) == t = NaN

\* Math.floor((currDate - prevDate) / (1000 * 60 * 60 * 24)) of two valid
\* dates.
DayDiff(prevDate, currDate) == (currDate - prevDate) \div MinutesPerDay

\* dayDiff === 1, which is false when dayDiff is NaN.
IsConsecutive(prevDate, currDate) ==
    /\ ~ IsNaN(prevDate)
    /\ ~ IsNaN(currDate)
    /\ DayDiff(prevDate, currDate) = 1

\* The body of  for (let i = 1; i < logs.length; i++)  on the loop's
\* variables, i++ included (sequences are 1-based here: logs[i - 1] is
\* sorted[i] and logs[i] is sorted[i + 1]).
LongestBody(sorted, s) ==
    LET prevDate == ParseDate(sorted[s.i])
        currDate == ParseDate(sorted[s.i + 1])
    IN  IF IsConsecutive(prevDate, currDate)
        THEN [ i             |-> s.i + 1,
               longestStreak |-> s.longestStreak,
               currentStreak |-> s.currentStreak + 1 ]
        ELSE [ i             |-> s.i + 1,
               longestStreak |-> Max(s.longestStreak, s.currentStreak),
               currentStreak |-> 1 ]

RECURSIVE LongestLoop(_, _, _)
\* The for loop: LongestBody repeated while i < logs.length, at most  fuel
\* times (split in halves to keep the evaluation shallow).
LongestLoop(sorted, s, fuel) ==
    IF ~ (s.i < Len(sorted)) \/ fuel = 0 THEN s
    ELSE IF fuel = 1 THEN LongestBody(sorted, s)
    ELSE LongestLoop(sorted,
                     LongestLoop(sorted, s, fuel \div 2), fuel - fuel \div 2)

\* "Check final streak": longestStreak = Math.max(longestStreak, currentStreak)
FinalStreak(s) == Max(s.longestStreak, s.currentStreak)

\* getLongestStreak(habitId, userId)
getLongestStreak(store, habitId, userId) ==
    LET sorted == SortAscending(CompletedDates(store, habitId, userId))
    IN  IF Len(sorted) = 0 THEN 0
        ELSE FinalStreak(LongestLoop(sorted,
                 [ i |-> 1, longestStreak |-> 0, currentStreak |-> 1 ],
                 Len(sorted)))

----------------------------------------------------------------------------
(* utils/badges.js                                                         *)

BADGE_MILESTONES ==
    << [days |-> 3,   name |-> "3-Day Warrior"],
       [days |-> 7,   name |-> "Week Champion"],
       [days |-> 14,  name |-> "Two-Week Hero"],
       [days |-> 21,  name |-> "21-Day Master"],
       [days |-> 30,  name |-> "Month Legend"],
       [days |-> 90,  name |-> "Quarter King"],
       [days |-> 180, name |-> "Half-Year Titan"],
       [days |-> 365, name |-> "Year Conqueror"] >>

\* A threshold counted only once it is exceeded.
IsReachedStrict(currentStreak, badge) == currentStreak > badge.days

\* badge => currentStreak >= badge.days
IsReached(currentStreak, badge) == currentStreak >= badge.days

\* Only the highest milestone reached is returned.
calculateBadgesHighestOnly(currentStreak) ==
    LET reached == SelectSeq(BADGE_MILESTONES,
                             LAMBDA badge : currentStreak >= badge.days)
    IN  IF Len(reached) = 0 THEN << >> ELSE << reached[Len(reached)] >>

\* calculateBadges(currentStreak): BADGE_MILESTONES.filter(...)
calculateBadges(currentStreak) ==
    SelectSeq(BADGE_MILESTONES, LAMBDA badge : IsReached(currentStreak, badge))

\* A milestone just reached still counted as ahead.
IsAheadOrEqual(currentStreak, badge) == currentStreak <= badge.days

\* badge => currentStreak < badge.days
IsAhead(currentStreak, badge) == currentStreak < badge.days

\* null is the empty sequence, an object the sequence of that one object.
Null == << >>

\* getNextBadge(currentStreak): BADGE_MILESTONES.find(...), the first
\* element of the table that satisfies the test, with daysRemaining added.
getNextBadge(currentStreak) ==
    LET ahead == SelectSeq(BADGE_MILESTONES,
                           LAMBDA badge : IsAhead(currentStreak, badge))
    IN  IF Len(ahead) > 0
        THEN << [ days          |-> ahead[1].days,
                  name          |-> ahead[1].name,
                  daysRemaining |-> ahead[1].days - currentStreak ] >>
        ELSE Null

\* The first of previousBadges taken instead of the last.
PreviousThresholdFirst(previousBadges) ==
    IF Len(previousBadges) > 0 THEN previousBadges[1].days ELSE 0

\* The previous badge threshold: the last of previousBadges, or 0.
PreviousThreshold(previousBadges) ==
    IF Len(previousBadges) > 0
    THEN previousBadges[Len(previousBadges)].days
    ELSE 0

\* Math.ceil in place of Math.floor.
CeilPercent(progress, range) == (progress * 100 + range - 1) \div range

\* Math.floor((progress / range) * 100).  For every progress < range that
\* the table allows, the double (progress / range) * 100 has the same
\* integer part as the exact quotient.
FloorPercent(progress, range) == (progress * 100) \div range

\* getBadgeProgress(currentStreak)
getBadgeProgress(currentStreak) ==
    LET nextBadge == getNextBadge(currentStreak)
        previousBadges ==
            SelectSeq(BADGE_MILESTONES, LAMBDA badge : badge.days <= currentStreak)
        previousThreshold == PreviousThreshold(previousBadges)
    IN  IF nextBadge = Null THEN 100
        ELSE FloorPercent(currentStreak - previousThreshold,
                          nextBadge[1].days - previousThreshold)

----------------------------------------------------------------------------
(* The state: users, habits, log records, clock.                           *)

UserIds == {"u1", "u2"}

\* bcrypt.hash(password, salt), and bcrypt.compare(candidate, hash): a hash
\* matches the password it was made from and no other.
Hash(password) == << "bcrypt", password >>

Passw0rd == <<"P", "a", "s", "s", "w", "0", "r", "d">>

\* The accounts of the two users.
InitialUsers ==
    { [id |-> "u1", name |-> <<"A", "n", "n">>, email |-> "ann@x.io",
       password |-> Hash(Passw0rd)],
      [id |-> "u2", name |-> <<"B", "o", "b">>, email |-> "bob@x.io",
       password |-> Hash(Passw0rd)] }

\* Habits h1 and h2 belong to u1, h3 to u2.
InitialHabits ==
    { [id |-> "h1", userId |-> "u1", name |-> <<"Y", "o", "g", "a">>],
      [id |-> "h2", userId |-> "u1", name |-> <<"S", "t", "u", "d", "y">>],
      [id |-> "h3", userId |-> "u2", name |-> <<"G", "y", "m">>] }

HabitIds == { h.id : h \in InitialHabits }

LogRecord(u, h, d, c) ==
    [userId |-> u, habitId |-> h, date |-> d, completed |-> c]

\* The UTC day number of an instant, and the date string of the day  i  days
\* before day number T.
DayNumber(t) == t \div MinutesPerDay
DayBefore(T, i) == CivilFromDays(T - i)

NoResponse == [op |-> "none"]

----------------------------------------------------------------------------
(* Calls of the streak functions                                           *)

CallCalculateStreak(h, u) ==
    /\ resp' = [ op       |-> "calculateStreak",
                 habitId  |-> h,
                 userId   |-> u,
                 returned |-> StreakTerminates(logs, h, u, now, tz),
                 value    |-> calculateStreak(logs, h, u, now, tz) ]
    /\ UNCHANGED <<habits, logs, now, tz, users, reqs>>

CallGetLongestStreak(h, u) ==
    /\ resp' = [ op       |-> "getLongestStreak",
                 habitId  |-> h,
                 userId   |-> u,
                 returned |-> TRUE,
                 value    |-> getLongestStreak(logs, h, u) ]
    /\ UNCHANGED <<habits, logs, now, tz, users, reqs>>

----------------------------------------------------------------------------
(* SpecStreak: the streak functions on a bounded family of log stores.     *)

\* Longest first and second run of the short stores.
MaxRun == 3
MaxSecondRun == 1

\* Widest gap between the two runs.
MaxGap == 1

\* The clocks of the family: the day after the clocks were set back in New
\* York, the day after they were set back in London, a summer day.
StreakClocks == { At(2024, 11, 4, 2) + 30, At(2024, 10, 28, 12), At(2024, 7, 15, 23) }

\* Completed records of habit h of user u on the  n  days that end  from
\* days before day T.
RunOf(u, h, T, from, n) ==
    { LogRecord(u, h, DayBefore(T, i), TRUE) : i \in from .. (from + n - 1) }

\* Records with a date that is not a calendar day or not near the clock:
\* the route stores any string of the form dddd-dd-dd that does not parse to
\* an instant after the end of the local day.
StrayDates ==
    { {},
      { <<2024, 10, 32>> },
      { <<2024, 13, 1>> },
      { <<2024, 9, 31>>, <<2024, 10, 2>> } }

\* Records of the other habits.
OtherRecords(T) == RunOf("u1", "h2", T, 0, 2) \cup RunOf("u2", "h3", T, 0, 1)

\* Short stores: for habit h1 a run of n days ending g days ago, a gap,
\* a second run of m days; optionally the gap days up to the first run
\* recorded as not completed, and stray dates; with records of other habits.
ShortStores(T) ==
    { RunOf("u1", "h1", T, g, n)
        \cup RunOf("u1", "h1", T, g + n + gap, m)
        \cup { LogRecord("u1", "h1", DayBefore(T, i), FALSE) :
                 i \in IF unmarked THEN (0 .. (g - 1)) \cup { g + n } ELSE {} }
        \cup { LogRecord("u1", "h1", d, TRUE) : d \in stray }
        \cup OtherRecords(T) :
      g \in 0 .. 1, n \in 0 .. MaxRun, gap \in 1 .. MaxGap,
      m \in 0 .. MaxSecondRun, unmarked \in BOOLEAN,
      stray \in StrayDates }

\* Long stores: one unbroken run ending today, around the safety limit.
LongStores(T) ==
    { RunOf("u1", "h1", T, 0, n) : n \in SafetyLimit .. (SafetyLimit + 2) }

InitStreak ==
    /\ habits = InitialHabits
    /\ now \in StreakClocks
    /\ tz \in Zones
    /\ logs \in ShortStores(DayNumber(now)) \cup LongStores(DayNumber(now))
    /\ resp = NoResponse
    /\ reqs = << >>
    /\ users = InitialUsers

NextStreak ==
    \/ \E x \in habits : CallCalculateStreak(x.id, x.userId)
    \/ \E x \in habits : CallGetLongestStreak(x.id, x.userId)

SpecStreak == InitStreak /\ [][NextStreak]_vars

----------------------------------------------------------------------------
(* POST /api/tracking/log                                                  *)

\* today.setHours(23, 59, 59, 999): the last minute of the local day of t.
EndOfLocalDay(z, t) ==
    UTCOfLocal(z, (LocalTime(z, t) \div MinutesPerDay) * MinutesPerDay
                  + (MinutesPerDay - 1))

\* validateLogTracking, the custom rule on date: "Date cannot be in the
\* future".  The comparison with an Invalid Date is false.
DateIsInFuture(z, clock, date) ==
    /\ ~ IsNaN(ParseDate(date))
    /\ ParseDate(date) > EndOfLocalDay(z, clock)

\* The filter without the user: a habit of anyone.
OwnsHabitAnyUser(hs, h, u) == \E x \in hs : x.id = h

\* Habit.findOne({ _id: habitId, userId: req.userId })
OwnsHabit(hs, h, u) == \E x \in hs : x.id = h /\ x.userId = u

\* The filter without the date: any record of the habit and user.
ExistingLogsAnyDate(store, h, u, date) ==
    { l \in store : l.userId = u /\ l.habitId = h }

\* HabitLog.findOne({ userId, habitId, date })
ExistingLogs(store, h, u, date) ==
    { l \in store : l.userId = u /\ l.habitId = h /\ l.date = date }

\* The clock of the specification of the routes, and the records the
\* collection holds when that specification starts: habit h1 completed on
\* the last four days, habit h2 on the last three.
RouteClock == At(2024, 7, 15, 12)

SeedLogs ==
    RunOf("u1", "h1", DayNumber(RouteClock), 0, 4)
        \cup RunOf("u1", "h2", DayNumber(RouteClock), 0, 3)

\* Most log records the model lets the requests add to the collection.
MaxLogs == 2

AddedLogs(store) ==
    { l \in store : \A s \in SeedLogs :
                        ~ (/\ l.userId = s.userId /\ l.habitId = s.habitId
                           /\ l.date = s.date) }

\* res.status(...).json(...)
LogResponse(status) == [ op |-> "postLog", status |-> status ]

\* router.post('/log', protect, validateLogTracking, ...) for the
\* authenticated user u.
PostLog(u, h, date, completed) ==
    IF DateIsInFuture(tz, now, date)
    THEN /\ resp' = LogResponse(400)
         /\ UNCHANGED <<habits, logs, now, tz, users, reqs>>
    ELSE IF ~ OwnsHabit(habits, h, u)
    THEN /\ resp' = LogResponse(404)
         /\ UNCHANGED <<habits, logs, now, tz, users, reqs>>
    ELSE IF ExistingLogs(logs, h, u, date) # {}
    THEN /\ logs' = (logs \ ExistingLogs(logs, h, u, date))
                       \cup { LogRecord(u, h, date, completed) }
         /\ resp' = LogResponse(200)
         /\ UNCHANGED <<habits, now, tz, users, reqs>>
    ELSE /\ Cardinality(AddedLogs(logs)) < MaxLogs
         /\ logs' = logs \cup { LogRecord(u, h, date, completed) }
         /\ resp' = LogResponse(201)
         /\ UNCHANGED <<habits, now, tz, users, reqs>>

----------------------------------------------------------------------------
(* Spec: log writes, the passing of days, and calls of the streak          *)
(* functions.                                                              *)

\* The clock the server starts with: the day the clocks were set back in
\* New York, late in the evening (UTC).
SpecClocks == { At(2024, 11, 3, 23) }

\* Days the clock advances at most.
MaxTicks == 1

\* Oldest day (days before today) a request logs.
MaxAge == 2

\* The dates of the requests: tomorrow, today, the days before, and a
\* string that is not a date.
RequestDates(T) == { DayBefore(T, i) : i \in -1 .. MaxAge } \cup { <<2024, 10, 32>> }

\* A day passes.
Tick ==
    /\ \E c \in SpecClocks \cup { RouteClock } :
           c <= now /\ now < c + MaxTicks * MinutesPerDay
    /\ now' = now + MinutesPerDay
    /\ resp' = NoResponse
    /\ UNCHANGED <<habits, logs, tz, users, reqs>>

Init ==
    /\ habits = InitialHabits
    /\ logs = {}
    /\ now \in SpecClocks
    /\ tz \in Zones
    /\ resp = NoResponse
    /\ reqs = << >>
    /\ users = InitialUsers

Next ==
    \/ \E u \in UserIds, h \in HabitIds, d \in RequestDates(DayNumber(now)),
          c \in BOOLEAN : PostLog(u, h, d, c)
    \/ Tick
    \/ \E x \in habits : CallCalculateStreak(x.id, x.userId)
    \/ \E x \in habits : CallGetLongestStreak(x.id, x.userId)

Spec == Init /\ [][Next]_vars

----------------------------------------------------------------------------
(* SpecBadges: the badge functions on the streaks 0 .. MaxStreak.          *)

\* Longest streak handed to the badge functions.
MaxStreak == 400

CallCalculateBadges(streak) ==
    /\ resp' = [ op |-> "calculateBadges", arg |-> streak,
                 value |-> calculateBadges(streak) ]
    /\ UNCHANGED <<habits, logs, now, tz, users, reqs>>

CallGetNextBadge(streak) ==
    /\ resp' = [ op |-> "getNextBadge", arg |-> streak,
                 value |-> getNextBadge(streak) ]
    /\ UNCHANGED <<habits, logs, now, tz, users, reqs>>

CallGetBadgeProgress(streak) ==
    /\ resp' = [ op |-> "getBadgeProgress", arg |-> streak,
                 value |-> getBadgeProgress(streak) ]
    /\ UNCHANGED <<habits, logs, now, tz, users, reqs>>

InitBadges ==
    /\ habits = InitialHabits
    /\ logs = {}
    /\ now \in SpecClocks
    /\ tz = ZoneUTC
    /\ resp = NoResponse
    /\ reqs = << >>
    /\ users = InitialUsers

NextBadges ==
    \/ \E streak \in 0 .. MaxStreak : CallCalculateBadges(streak)
    \/ \E streak \in 0 .. MaxStreak : CallGetNextBadge(streak)
    \/ \E streak \in 0 .. MaxStreak : CallGetBadgeProgress(streak)

SpecBadges == InitBadges /\ [][NextBadges]_vars

----------------------------------------------------------------------------
(* What the streak functions are specified to return.                      *)

\* Habit h of user u has a record with completed = true for the date d.
IsCompletedOn(store, h, u, d) ==
    \E l \in store : /\ l.habitId = h /\ l.userId = u
                     /\ l.date = d /\ l.completed

\* The number k such that the days T, T-1, ..., T-(k-1) are completed and
\* the day T-k is not.
RunEndingOn(store, h, u, T) ==
    CHOOSE k \in 0 .. Cardinality(store) :
        /\ ~ IsCompletedOn(store, h, u, DayBefore(T, k))
        /\ \A i \in 0 .. (k - 1) : IsCompletedOn(store, h, u, DayBefore(T, i))

\* The day numbers of the calendar days habit h of user u completed.
CompletedDays(store, h, u) ==
    { DayNumber(ParseDate(d)) :
        d \in { c \in CompletedDates(store, h, u) : IsCalendarDate(c) } }

\* The length of the run of completed days that starts on day a.
RunFrom(days, a) ==
    CHOOSE n \in 1 .. Cardinality(days) :
        /\ (a + n) \notin days
        /\ \A i \in 0 .. (n - 1) : (a + i) \in days

\* The length of the longest run of consecutive calendar days.
LongestRun(days) ==
    LET lengths == { RunFrom(days, a) : a \in { b \in days : (b - 1) \notin days } }
    IN  IF days = {} THEN 0
        ELSE CHOOSE n \in lengths : \A m \in lengths : m <= n

Today == DayNumber(now)

\* C1: calculateStreak returns the number k such that the days today,
\* today-1, ..., today-(k-1) each have a completed record of that habit and
\* user and day today-k has none, for runs of at most 730 days.
C1_StreakIsRunEndingToday ==
    resp.op = "calculateStreak" =>
        LET k == RunEndingOn(logs, resp.habitId, resp.userId, Today)
        IN  k <= SafetyLimit => resp.value = k

\* C2: calculateStreak returns 0 exactly when today has no completed record
\* of that habit; when today is completed the result is at least 1.
C2_ZeroIffTodayMissed ==
    resp.op = "calculateStreak" =>
        /\ resp.value >= 0
        /\ resp.value = 0 <=>
             ~ IsCompletedOn(logs, resp.habitId, resp.userId, DayBefore(Today, 0))

\* C2 witness: a run that ended yesterday, today missed, and the call
\* returned 0.
C2_Witness ==
    /\ resp.op = "calculateStreak"
    /\ resp.value = 0
    /\ ~ IsCompletedOn(logs, resp.habitId, resp.userId, DayBefore(Today, 0))
    /\ IsCompletedOn(logs, resp.habitId, resp.userId, DayBefore(Today, 1))
    /\ IsCompletedOn(logs, resp.habitId, resp.userId, DayBefore(Today, 2))

\* C3: getLongestStreak returns the length of the longest run of
\* consecutive calendar days among the habit's completed records (0 for
\* none, 1 for a single one, the final run included).
C3_LongestIsLongestRun ==
    resp.op = "getLongestStreak" =>
        resp.value = LongestRun(CompletedDays(logs, resp.habitId, resp.userId))

\* C10: the backward walk terminates and the value returned is never
\* greater than 730.
C10_WalkCappedAtLimit ==
    resp.op = "calculateStreak" =>
        /\ resp.returned
        /\ resp.value <= SafetyLimit

\* C4: in every reachable state and for every value of today the longest
\* streak of a habit is at least its current streak.
C4_LongestAtLeastCurrent ==
    \A x \in habits :
        getLongestStreak(logs, x.id, x.userId)
            >= calculateStreak(logs, x.id, x.userId, now, tz)

----------------------------------------------------------------------------
(* What the badge functions are specified to return.                       *)

\* The thresholds of the milestone table, in days.
Thresholds == {3, 7, 14, 21, 30, 90, 180, 365}

HighestThreshold == CHOOSE t \in Thresholds : \A o \in Thresholds : o <= t

\* The lowest threshold above the streak s, for s below the highest.
NextThreshold(s) ==
    CHOOSE t \in Thresholds : t > s /\ \A o \in Thresholds : o > s => t <= o

\* The highest threshold the streak s has met, 0 if none.
MetThreshold(s) ==
    LET met == { t \in Thresholds : t <= s } \cup {0}
    IN  CHOOSE t \in met : \A o \in met : o <= t

BadgeDays(badges) == { badges[i].days : i \in DOMAIN badges }

\* C5: calculateBadges returns exactly the milestones of the table whose
\* threshold is at most the streak, in table order and each at most once.
C5_BadgesAreReachedMilestones ==
    resp.op = "calculateBadges" =>
        /\ BadgeDays(resp.value) = { t \in Thresholds : t <= resp.arg }
        /\ \A i, j \in DOMAIN resp.value :
               i < j => resp.value[i].days < resp.value[j].days
        /\ \A i \in DOMAIN resp.value :
               \E k \in DOMAIN BADGE_MILESTONES :
                   resp.value[i] = BADGE_MILESTONES[k]

\* C5 witness: a streak equal to the first threshold earns that badge only.
C5_Witness ==
    /\ resp.op = "calculateBadges"
    /\ resp.arg = 3
    /\ BadgeDays(resp.value) = {3}

\* C6: getNextBadge returns the milestone with the lowest threshold above
\* the streak and daysRemaining = threshold - streak >= 1; it returns null
\* exactly when the streak is at least the highest threshold.
C6_NextBadgeIsLowestAhead ==
    resp.op = "getNextBadge" =>
        /\ resp.value = Null <=> resp.arg >= HighestThreshold
        /\ resp.value # Null =>
             /\ Len(resp.value) = 1
             /\ resp.value[1].days = NextThreshold(resp.arg)
             /\ resp.value[1].daysRemaining = resp.value[1].days - resp.arg
             /\ resp.value[1].daysRemaining >= 1
             /\ \E k \in DOMAIN BADGE_MILESTONES :
                    /\ BADGE_MILESTONES[k].days = resp.value[1].days
                    /\ BADGE_MILESTONES[k].name = resp.value[1].name

\* C6 witness: for streak 10, the 14-day milestone with 4 days remaining.
C6_Witness ==
    /\ resp.op = "getNextBadge"
    /\ resp.arg = 10
    /\ resp.value # Null
    /\ resp.value[1].days = 14
    /\ resp.value[1].daysRemaining = 4

\* C7: below the highest threshold, getBadgeProgress is
\* floor(100 * (streak - met) / (next - met)).
C7_ProgressFormula ==
    (resp.op = "getBadgeProgress" /\ resp.arg < HighestThreshold) =>
        resp.value = (100 * (resp.arg - MetThreshold(resp.arg)))
                        \div (NextThreshold(resp.arg) - MetThreshold(resp.arg))

\* C7 witness: for streak 10 the progress is 42.
C7_Witness ==
    /\ resp.op = "getBadgeProgress"
    /\ resp.arg = 10
    /\ resp.value = 42

\* C8: getBadgeProgress lies in 0..100 and is 100 exactly when the streak
\* is at least the highest threshold.
C8_ProgressRange ==
    resp.op = "getBadgeProgress" =>
        /\ resp.value \in 0 .. 100
        /\ resp.value = 100 <=> resp.arg >= HighestThreshold

\* C8 witness: one day short of the highest threshold the progress is 99.
C8_Witness ==
    /\ resp.op = "getBadgeProgress"
    /\ resp.arg = HighestThreshold - 1
    /\ resp.value = 99

\* C9: the badges earned are monotonic in the streak: every badge of a
\* streak b <= a is among the badges of a.
C9_BadgesMonotonic ==
    resp.op = "calculateBadges" =>
        \A b \in 0 .. resp.arg :
            \A i \in DOMAIN calculateBadges(b) :
                \E j \in DOMAIN resp.value :
                    resp.value[j] = calculateBadges(b)[i]

\* C9 witness: a streak with three badges, two of them earned by shorter
\* streaks already.
C9_Witness ==
    /\ resp.op = "calculateBadges"
    /\ resp.arg = 14
    /\ Len(resp.value) = 3
    /\ Len(calculateBadges(7)) = 2

----------------------------------------------------------------------------
(* POST /api/tracking/log, one await at a time.  A handler runs to its     *)
(* next await, the database executes one operation, and the handlers of    *)
(* other requests may run in between.  reqs holds the requests in order    *)
(* of arrival; pc is the await the handler is suspended at.                *)

\* Requests the server has accepted at most.
MaxRequests == 2

\* The requests answered so far.
Answered(rs) == { i \in DOMAIN rs : rs[i].pc = "done" }

\* Request i is answered with the given status; order counts the answers.
Answer(rs, i, status) ==
    [rs EXCEPT ![i].pc = "done", ![i].status = status,
               ![i].order = Cardinality(Answered(rs)) + 1]

\* habitLogSchema.index({ userId: 1, habitId: 1, date: 1 }, { unique: true }):
\* an insert is refused (E11000) when a record with the same key is stored.
UniqueIndexAbsent(store, u, h, date) == TRUE

UniqueIndexAllows(store, u, h, date) == ExistingLogs(store, h, u, date) = {}

\* protect and validateLogTracking, then the handler up to its first await.
LogStart(u, h, date, completed) ==
    /\ Len(reqs) < MaxRequests
    /\ IF DateIsInFuture(tz, now, date)
       THEN /\ resp' = LogResponse(400)
            /\ UNCHANGED <<habits, logs, now, tz, users, reqs>>
       ELSE /\ reqs' = Append(reqs, [ op |-> "postLog", userId |-> u,
                                      habitId |-> h, date |-> date,
                                      completed |-> completed,
                                      pc |-> "findHabit", found |-> {},
                                      status |-> 0, order |-> 0 ])
            /\ UNCHANGED <<habits, logs, now, tz, users, resp>>

\* await Habit.findOne({ _id: habitId, userId: req.userId }); 404 without it.
LogFindHabit(i) ==
    /\ reqs[i].op = "postLog" /\ reqs[i].pc = "findHabit"
    /\ IF OwnsHabit(habits, reqs[i].habitId, reqs[i].userId)
       THEN /\ reqs' = [reqs EXCEPT ![i].pc = "findLog"]
            /\ UNCHANGED <<habits, logs, now, tz, users, resp>>
       ELSE /\ reqs' = Answer(reqs, i, 404)
            /\ resp' = LogResponse(404)
            /\ UNCHANGED <<habits, logs, now, tz, users>>

\* existingLog = await HabitLog.findOne({ userId, habitId, date }): the
\* handler keeps the document as it was read.
LogFindLog(i) ==
    /\ reqs[i].op = "postLog" /\ reqs[i].pc = "findLog"
    /\ reqs' = [reqs EXCEPT
                  ![i].found = ExistingLogs(logs, reqs[i].habitId,
                                            reqs[i].userId, reqs[i].date),
                  ![i].pc = IF ExistingLogs(logs, reqs[i].habitId,
                                            reqs[i].userId, reqs[i].date) # {}
                            THEN "save" ELSE "create"]
    /\ UNCHANGED <<habits, logs, now, tz, users, resp>>

\* existingLog.completed = completed; await existingLog.save().  Mongoose
\* writes the paths that differ from the document as it was read: with none
\* it sends nothing, otherwise it sets completed on the stored document, and
\* fails (DocumentNotFoundError, caught: 500) when the document is gone.
LogSave(i) ==
    /\ reqs[i].op = "postLog" /\ reqs[i].pc = "save"
    /\ IF \A l \in reqs[i].found : l.completed = reqs[i].completed
       THEN /\ reqs' = Answer(reqs, i, 200)
            /\ resp' = LogResponse(200)
            /\ UNCHANGED logs
       ELSE IF ExistingLogs(logs, reqs[i].habitId, reqs[i].userId,
                            reqs[i].date) = {}
       THEN /\ reqs' = Answer(reqs, i, 500)
            /\ resp' = LogResponse(500)
            /\ UNCHANGED logs
       ELSE /\ logs' = (logs \ ExistingLogs(logs, reqs[i].habitId,
                                            reqs[i].userId, reqs[i].date))
                          \cup { LogRecord(reqs[i].userId, reqs[i].habitId,
                                           reqs[i].date, reqs[i].completed) }
            /\ reqs' = Answer(reqs, i, 200)
            /\ resp' = LogResponse(200)
    /\ UNCHANGED <<habits, now, tz, users>>

\* await HabitLog.create({ ... }); the duplicate-key error of the unique
\* index is caught by the handler's catch: 500.
LogCreate(i) ==
    /\ reqs[i].op = "postLog" /\ reqs[i].pc = "create"
    /\ IF UniqueIndexAllows(logs, reqs[i].userId, reqs[i].habitId,
                            reqs[i].date)
       THEN /\ logs' = logs \cup { LogRecord(reqs[i].userId, reqs[i].habitId,
                                             reqs[i].date, reqs[i].completed) }
            /\ reqs' = Answer(reqs, i, 201)
            /\ resp' = LogResponse(201)
       ELSE /\ reqs' = Answer(reqs, i, 500)
            /\ resp' = LogResponse(500)
            /\ UNCHANGED logs
    /\ UNCHANGED <<habits, now, tz, users>>

----------------------------------------------------------------------------
(* POST /api/habits, one await at a time.                                  *)

\* body('name').trim(): white space at both ends is removed.
RECURSIVE TrimStart(_)
TrimStart(name) ==
    IF name # << >> /\ Head(name) = " " THEN TrimStart(Tail(name)) ELSE name

RECURSIVE TrimEnd(_)
TrimEnd(name) ==
    IF name # << >> /\ name[Len(name)] = " "
    THEN TrimEnd(SubSeq(name, 1, Len(name) - 1))
    ELSE name

Trim(name) == TrimEnd(TrimStart(name))

\* .escape(): the characters of HTML become entities.
EscapeChar(c) ==
    CASE c = "&" -> <<"&", "a", "m", "p", ";">>
      [] c = "<" -> <<"&", "l", "t", ";">>
      [] c = ">" -> <<"&", "g", "t", ";">>
      [] OTHER   -> <<c>>

RECURSIVE Escape(_)
Escape(name) ==
    IF name = << >> THEN << >>
    ELSE EscapeChar(Head(name)) \o Escape(Tail(name))

\* validateCreateHabit on the name: the sanitized name, empty when refused.
SanitizeName(name) == Escape(Trim(name))

NameIsValid(name) == Len(Trim(name)) >= 1 /\ Len(Trim(name)) <= 100

\* The flag 'i' of the regular expression: letters compare without case.
\* G, S and Y are the capital letters of the names of the model.
LowerCase(c) ==
    CASE c = "G" -> "g"
      [] c = "S" -> "s"
      [] c = "Y" -> "y"
      [] OTHER   -> c

\* new RegExp(`^${name}$`, 'i') tested on a stored name.  The name is the
\* source of the pattern: a letter stands for itself, and a letter followed
\* by ? is a letter that may be absent.
RECURSIVE RegExpTest(_, _)
RegExpTest(pattern, text) ==
    IF pattern = << >> THEN text = << >>
    ELSE IF Len(pattern) >= 2 /\ pattern[2] = "?"
    THEN \/ RegExpTest(SubSeq(pattern, 3, Len(pattern)), text)
         \/ /\ text # << >>
            /\ LowerCase(Head(text)) = LowerCase(Head(pattern))
            /\ RegExpTest(SubSeq(pattern, 3, Len(pattern)), Tail(text))
    ELSE /\ text # << >>
         /\ LowerCase(Head(text)) = LowerCase(Head(pattern))
         /\ RegExpTest(Tail(pattern), Tail(text))

\* Habit.findOne({ userId, name: { $regex: ... } })
ExistingHabits(hs, u, name) ==
    { x \in hs : x.userId = u /\ RegExpTest(name, x.name) }

\* The _id of a new document: one no document had before.
NewHabitId(rs) ==
    "h" \o ToString(Cardinality(InitialHabits) + 1
                    + Cardinality({ i \in DOMAIN rs :
                                      /\ rs[i].op = "createHabit"
                                      /\ rs[i].status = 201 }))

HabitResponse(status) == [ op |-> "createHabit", status |-> status ]

\* protect and validateCreateHabit, then the handler up to its first await.
HabitStart(u, name) ==
    /\ Len(reqs) < MaxRequests
    /\ IF ~ NameIsValid(name)
       THEN /\ resp' = HabitResponse(400)
            /\ UNCHANGED <<habits, logs, now, tz, users, reqs>>
       ELSE /\ reqs' = Append(reqs, [ op |-> "createHabit", userId |-> u,
                                      name |-> SanitizeName(name),
                                      pc |-> "findName",
                                      status |-> 0, order |-> 0 ])
            /\ UNCHANGED <<habits, logs, now, tz, users, resp>>

\* existingHabit = await Habit.findOne(...); 400 when there is one.
HabitFindName(i) ==
    /\ reqs[i].op = "createHabit" /\ reqs[i].pc = "findName"
    /\ IF ExistingHabits(habits, reqs[i].userId, reqs[i].name) # {}
       THEN /\ reqs' = Answer(reqs, i, 400)
            /\ resp' = HabitResponse(400)
            /\ UNCHANGED <<habits, logs, now, tz, users>>
       ELSE /\ reqs' = [reqs EXCEPT ![i].pc = "create"]
            /\ UNCHANGED <<habits, logs, now, tz, users, resp>>

\* await Habit.create({ userId, name, icon }); the collection has no unique
\* index on the name.
HabitCreate(i) ==
    /\ reqs[i].op = "createHabit" /\ reqs[i].pc = "create"
    /\ habits' = habits \cup { [ id |-> NewHabitId(reqs),
                                 userId |-> reqs[i].userId,
                                 name |-> reqs[i].name ] }
    /\ reqs' = Answer(reqs, i, 201)
    /\ resp' = HabitResponse(201)
    /\ UNCHANGED <<logs, now, tz, users>>

----------------------------------------------------------------------------
(* SpecConcurrent: log writes and habit creations whose handlers           *)
(* interleave at their awaits.                                             *)

Gym == <<"G", "y", "m">>

\* The names of the create requests: a name, the same name in small
\* letters, a name that ends in a question mark, a blank name.
RequestNames == { Gym, <<"g", "y", "m">>, <<"G", "y", "m", "?">>, <<" ">> }

\* The log requests of user u1: today's record of the own habit h1 with
\* both values, tomorrow's record, and a record of the habit of u2.
LogRequests(T) ==
    { <<"u1", "h1", DayBefore(T, 0), TRUE>>,
      <<"u1", "h1", DayBefore(T, 0), FALSE>>,
      <<"u1", "h1", DayBefore(T, -1), TRUE>>,
      <<"u1", "h3", DayBefore(T, 0), TRUE>> }

InitConcurrent ==
    /\ habits = InitialHabits
    /\ now \in SpecClocks
    /\ tz = ZoneUTC
    /\ logs \in { {}, { LogRecord("u1", "h1", DayBefore(DayNumber(now), 0),
                                  FALSE) } }
    /\ resp = NoResponse
    /\ reqs = << >>
    /\ users = InitialUsers

----------------------------------------------------------------------------
(* Log writes and habit creations: what is specified.                      *)

\* Two log records are records of the same day of the same habit and user.
SameKey(l1, l2) ==
    /\ l1.userId = l2.userId
    /\ l1.habitId = l2.habitId
    /\ l1.date = l2.date

\* C11: in every reachable state, after any sequence or interleaving of
\* POST /api/tracking/log requests, there is at most one log record per
\* (userId, habitId, date).
C11_OneRecordPerDay ==
    \A l1 \in logs, l2 \in logs : SameKey(l1, l2) => l1 = l2

\* Two requests for the same day both found no record, both were answered,
\* and the day has a record.
C11_Witness ==
    \E i \in Answered(reqs), j \in Answered(reqs) :
        /\ i # j
        /\ reqs[i].op = "postLog" /\ reqs[j].op = "postLog"
        /\ SameKey(reqs[i], reqs[j])
        /\ reqs[i].completed # reqs[j].completed
        /\ reqs[i].status = 201 /\ reqs[j].status = 500
        /\ ExistingLogs(logs, reqs[i].habitId, reqs[i].userId,
                        reqs[i].date) # {}

\* The log requests that were answered and got past the ownership check.
AnsweredLogs(rs) ==
    { i \in Answered(rs) : rs[i].op = "postLog" /\ rs[i].status # 404 }

\* C13: two POST /api/tracking/log requests for the same (user, habit,
\* date) that run concurrently both complete successfully, and the stored
\* completed value is the value of the write applied last, also when no
\* record for that day existed beforehand.
C13_BothSucceedLastWriteWins ==
    \A i \in AnsweredLogs(reqs), j \in AnsweredLogs(reqs) :
        (i # j /\ SameKey(reqs[i], reqs[j]) /\ reqs[i].order < reqs[j].order)
        => /\ reqs[i].status \in {200, 201}
           /\ reqs[j].status \in {200, 201}
           /\ (reqs[j].order = Cardinality(Answered(reqs))
               => \A l \in ExistingLogs(logs, reqs[j].habitId,
                                        reqs[j].userId, reqs[j].date) :
                      l.completed = reqs[j].completed)

\* Two names are equal ignoring case.
EqualIgnoringCase(a, b) ==
    /\ Len(a) = Len(b)
    /\ \A k \in 1 .. Len(a) : LowerCase(a[k]) = LowerCase(b[k])

\* C20: no user ever has two habits whose names are equal ignoring case,
\* also when two create requests for the same name run concurrently: a
\* create request with a name the user already has is answered 400.
C20_NoDuplicateNames ==
    /\ \A x \in habits, y \in habits :
           (x.userId = y.userId /\ EqualIgnoringCase(x.name, y.name))
           => x = y
    /\ \A i \in Answered(reqs) :
           (reqs[i].op = "createHabit" /\ reqs[i].status = 201)
           => Cardinality({ x \in habits :
                              /\ x.userId = reqs[i].userId
                              /\ EqualIgnoringCase(x.name, reqs[i].name) }) = 1

----------------------------------------------------------------------------
(* The streak functions when reading the collection fails, and the         *)
(* functions over all habits of a user.                                    *)

\* A rejected promise (an exception that leaves the function).
Rejected == -1

\* The error leaves the function.
OnStreakErrorRethrow(failed, value) == IF failed THEN Rejected ELSE value

\* calculateStreak: try { ... } catch (error) { return 0 }
OnStreakError(failed, value) == IF failed THEN 0 ELSE value

\* getLongestStreak: try { ... } catch (error) { return 0 }
OnLongestError(failed, value) == IF failed THEN 0 ELSE value

\* calculateStreak when HabitLog.find throws (failed) or returns.
calculateStreakOr(failed, store, habitId, userId, clock, z) ==
    OnStreakError(failed, calculateStreak(store, habitId, userId, clock, z))

\* getLongestStreak when HabitLog.find throws (failed) or returns.
getLongestStreakOr(failed, store, habitId, userId) ==
    OnLongestError(failed, getLongestStreak(store, habitId, userId))

\* An object without properties.
EmptyObject == [h \in {} |-> 0]

\* The map built from the longest streaks instead of the current ones.
longestStreaksForHabits(store, failing, habitIds, userId, clock, z) ==
    [h \in habitIds |-> getLongestStreakOr(h \in failing, store, h, userId)]

\* calculateStreaksForHabits(habitIds, userId): Promise.all over the habits
\* (it rejects when one of the promises does), catch: return {}.  The reads
\* of the habits in  failing  throw.
calculateStreaksForHabits(store, failing, habitIds, userId, clock, z) ==
    LET streaks == [h \in habitIds |->
                      calculateStreakOr(h \in failing, store, h, userId,
                                        clock, z)]
    IN  IF \E h \in habitIds : streaks[h] = Rejected
        THEN EmptyObject
        ELSE streaks

\* calculateBadgesForHabits(streaks)
calculateBadgesForHabits(streaks) ==
    [habitId \in DOMAIN streaks |-> calculateBadges(streaks[habitId])]

\* Habit.find({ userId }).select('_id'), habits.map(h => h._id.toString())
HabitIdsOf(hs, u) == { x.id : x \in { y \in hs : y.userId = u } }

CallCalculateStreakOr(failed, h, u) ==
    /\ resp' = [ op       |-> "calculateStreak",
                 habitId  |-> h,
                 userId   |-> u,
                 failed   |-> failed,
                 returned |-> StreakTerminates(logs, h, u, now, tz),
                 value    |-> calculateStreakOr(failed, logs, h, u, now, tz) ]
    /\ UNCHANGED <<habits, logs, now, tz, users, reqs>>

CallGetLongestStreakOr(failed, h, u) ==
    /\ resp' = [ op       |-> "getLongestStreak",
                 habitId  |-> h,
                 userId   |-> u,
                 failed   |-> failed,
                 returned |-> TRUE,
                 value    |-> getLongestStreakOr(failed, logs, h, u) ]
    /\ UNCHANGED <<habits, logs, now, tz, users, reqs>>

CallCalculateStreaksForHabits(failing, u) ==
    /\ resp' = [ op       |-> "calculateStreaksForHabits",
                 userId   |-> u,
                 habitIds |-> HabitIdsOf(habits, u),
                 failing  |-> failing,
                 value    |-> calculateStreaksForHabits(logs, failing,
                                  HabitIdsOf(habits, u), u, now, tz) ]
    /\ UNCHANGED <<habits, logs, now, tz, users, reqs>>

----------------------------------------------------------------------------
(* GET /api/tracking/badges and DELETE /api/habits/:id                     *)

\* router.get('/badges', protect, ...) for the authenticated user u.
GetBadges(u) ==
    LET habitIds == HabitIdsOf(habits, u)
        streaks  == calculateStreaksForHabits(logs, {}, habitIds, u, now, tz)
    IN  /\ resp' = [ op         |-> "getBadges",
                     userId     |-> u,
                     status     |-> 200,
                     badges     |-> calculateBadgesForHabits(streaks),
                     nextBadges |-> [h \in DOMAIN streaks |->
                                       getNextBadge(streaks[h])] ]
        /\ UNCHANGED <<habits, logs, now, tz, users, reqs>>

\* The records of the habit are left in the collection.
LogsOfHabitNone(store, habitId) == {}

\* The filter of HabitLog.deleteMany({ habitId })
LogsOfHabit(store, habitId) == { l \in store : l.habitId = habitId }

DeleteResponse(status, habitId) ==
    [ op |-> "deleteHabit", status |-> status, habitId |-> habitId ]

\* router.delete('/:id', protect, ...) for the authenticated user u.
DeleteHabit(u, h) ==
    IF ~ OwnsHabit(habits, h, u)
    THEN /\ resp' = DeleteResponse(404, h)
         /\ UNCHANGED <<habits, logs, now, tz, users, reqs>>
    ELSE /\ habits' = { x \in habits : x.id # h }
         /\ logs' = logs \ LogsOfHabit(logs, h)
         /\ resp' = DeleteResponse(200, h)
         /\ UNCHANGED <<now, tz, users, reqs>>

----------------------------------------------------------------------------
(* DELETE /api/habits/:id, one await at a time.                            *)

\* router.delete('/:id', protect, ...) for the authenticated user u: the
\* handler is entered.
DeleteStart(u, h) ==
    /\ Len(reqs) < MaxRequests
    /\ reqs' = Append(reqs, [ op |-> "deleteHabit", userId |-> u,
                              habitId |-> h, pc |-> "findHabit",
                              status |-> 0, order |-> 0 ])
    /\ UNCHANGED <<habits, logs, now, tz, users, resp>>

\* await Habit.findOne({ _id: habitId, userId: req.userId }); 404 without it.
DeleteFindHabit(i) ==
    /\ reqs[i].op = "deleteHabit" /\ reqs[i].pc = "findHabit"
    /\ IF OwnsHabit(habits, reqs[i].habitId, reqs[i].userId)
       THEN /\ reqs' = [reqs EXCEPT ![i].pc = "deleteOne"]
            /\ UNCHANGED <<habits, logs, now, tz, users, resp>>
       ELSE /\ reqs' = Answer(reqs, i, 404)
            /\ resp' = DeleteResponse(404, reqs[i].habitId)
            /\ UNCHANGED <<habits, logs, now, tz, users>>

\* await Habit.deleteOne({ _id: habitId })
DeleteOne(i) ==
    /\ reqs[i].op = "deleteHabit" /\ reqs[i].pc = "deleteOne"
    /\ habits' = { x \in habits : x.id # reqs[i].habitId }
    /\ reqs' = [reqs EXCEPT ![i].pc = "deleteMany"]
    /\ UNCHANGED <<logs, now, tz, users, resp>>

\* await HabitLog.deleteMany({ habitId }); when the operation fails the
\* handler's catch answers 500.
DeleteMany(i, fails) ==
    /\ reqs[i].op = "deleteHabit" /\ reqs[i].pc = "deleteMany"
    /\ IF fails
       THEN /\ reqs' = Answer(reqs, i, 500)
            /\ resp' = DeleteResponse(500, reqs[i].habitId)
            /\ UNCHANGED logs
       ELSE /\ logs' = logs \ LogsOfHabit(logs, reqs[i].habitId)
            /\ reqs' = Answer(reqs, i, 200)
            /\ resp' = DeleteResponse(200, reqs[i].habitId)
    /\ UNCHANGED <<habits, now, tz, users>>

\* The delete requests <<user, habit>>: by the owner and by the other user.
DeleteRequests == { <<"u1", "h1">>, <<"u2", "h1">> }

\* SpecConcurrent: the handlers of log writes, habit creations and habit
\* deletions, interleaved at their awaits.
NextConcurrent ==
    \/ \E q \in LogRequests(DayNumber(now)) : LogStart(q[1], q[2], q[3], q[4])
    \/ \E i \in DOMAIN reqs : LogFindHabit(i)
    \/ \E i \in DOMAIN reqs : LogFindLog(i)
    \/ \E i \in DOMAIN reqs : LogSave(i)
    \/ \E i \in DOMAIN reqs : LogCreate(i)
    \/ \E name \in RequestNames : HabitStart("u1", name)
    \/ \E i \in DOMAIN reqs : HabitFindName(i)
    \/ \E i \in DOMAIN reqs : HabitCreate(i)
    \/ \E q \in DeleteRequests : DeleteStart(q[1], q[2])
    \/ \E i \in DOMAIN reqs : DeleteFindHabit(i)
    \/ \E i \in DOMAIN reqs : DeleteOne(i)
    \/ \E i \in DOMAIN reqs, fails \in BOOLEAN : DeleteMany(i, fails)

SpecConcurrent == InitConcurrent /\ [][NextConcurrent]_vars

----------------------------------------------------------------------------
(* SpecRoutes: requests handled one after another, on a collection that    *)
(* holds streaks long enough for a badge.                                  *)

\* The log requests <<user, habit, date, completed>>: today's record of
\* each habit by its owner with both values, a record of tomorrow, and
\* records of habits of the other user.
RouteLogRequests(T) ==
    { <<x.userId, x.id, DayBefore(T, 0), c>> :
        x \in InitialHabits, c \in BOOLEAN }
    \cup { <<"u1", "h1", DayBefore(T, -1), TRUE>>,
           <<"u2", "h1", DayBefore(T, 0), FALSE>>,
           <<"u1", "h3", DayBefore(T, 0), TRUE>> }

InitRoutes ==
    /\ habits = InitialHabits
    /\ logs = SeedLogs
    /\ now = RouteClock
    /\ tz = ZoneUTC
    /\ resp = NoResponse
    /\ reqs = << >>
    /\ users = InitialUsers

NextRoutes ==
    \/ \E q \in RouteLogRequests(DayNumber(now)) :
          PostLog(q[1], q[2], q[3], q[4])
    \/ \E u \in UserIds, h \in HabitIds : DeleteHabit(u, h)
    \/ \E u \in UserIds : GetBadges(u)
    \/ Tick

SpecRoutes == InitRoutes /\ [][NextRoutes]_vars

----------------------------------------------------------------------------
(* SpecFaults: the streak functions called while reads of the collection   *)
(* fail or succeed.                                                        *)

InitFaults ==
    /\ habits = InitialHabits
    /\ now \in StreakClocks
    /\ tz \in { ZoneUTC, ZoneLondon }
    /\ logs \in ShortStores(DayNumber(now))
    /\ resp = NoResponse
    /\ reqs = << >>
    /\ users = InitialUsers

NextFaults ==
    \/ \E x \in habits, failed \in BOOLEAN :
          CallCalculateStreakOr(failed, x.id, x.userId)
    \/ \E x \in habits, failed \in BOOLEAN :
          CallGetLongestStreakOr(failed, x.id, x.userId)
    \/ \E u \in UserIds :
          \E failing \in SUBSET HabitIdsOf(habits, u) :
              CallCalculateStreaksForHabits(failing, u)

SpecFaults == InitFaults /\ [][NextFaults]_vars

----------------------------------------------------------------------------
(* Requests handled one after another: what is specified.                  *)

\* The records of store for day d of habit h of user u.
RecordsOfDay(store, u, h, d) ==
    { l \in store : l.userId = u /\ l.habitId = h /\ l.date = d }

\* C12: a POST /api/tracking/log for a (user, habit, date) that already has
\* a record overwrites that record's completed flag instead of adding a
\* record; after requests issued one after another the stored completed
\* value is the one sent by the last request.
C12_OverwriteKeepsOneRecord ==
    [][ (resp'.op = "postLog" /\ resp'.status \in {200, 201})
        => \A q \in RouteLogRequests(Today) :
               PostLog(q[1], q[2], q[3], q[4])
               => /\ RecordsOfDay(logs', q[1], q[2], q[3])
                       = { LogRecord(q[1], q[2], q[3], q[4]) }
                  /\ logs' \ RecordsOfDay(logs', q[1], q[2], q[3])
                       = logs \ RecordsOfDay(logs, q[1], q[2], q[3])
                  /\ RecordsOfDay(logs, q[1], q[2], q[3]) # {}
                       => /\ resp'.status = 200
                          /\ Cardinality(logs') = Cardinality(logs) ]_vars

\* C12 witness: a record the collection started with as completed was
\* overwritten: the request was answered 200 and the record says false.
C12_Witness ==
    /\ resp = LogResponse(200)
    /\ \E s \in SeedLogs :
           RecordsOfDay(logs, s.userId, s.habitId, s.date)
               = { LogRecord(s.userId, s.habitId, s.date, FALSE) }

\* C14: the badges returned by GET /api/tracking/badges for a habit are the
\* milestones met by that habit's current streak, never by its history:
\* once today's record is set to completed = false, or a day passed
\* uncompleted, no badge is returned for the habit.
C14_BadgesFollowCurrentStreak ==
    resp.op = "getBadges" =>
        /\ DOMAIN resp.badges = HabitIdsOf(habits, resp.userId)
        /\ \A h \in DOMAIN resp.badges :
               /\ BadgeDays(resp.badges[h])
                    = { t \in Thresholds :
                          t <= calculateStreak(logs, h, resp.userId, now, tz) }
               /\ ~ IsCompletedOn(logs, h, resp.userId, DayBefore(Today, 0))
                    => resp.badges[h] = << >>

\* C14 witness: h1 was completed on the three days before today, today's
\* record says false, and the response has no badge for h1 and one for h2.
C14_Witness ==
    /\ resp.op = "getBadges"
    /\ resp.userId = "u1"
    /\ DOMAIN resp.badges = {"h1", "h2"}
    /\ LogRecord("u1", "h1", DayBefore(Today, 0), FALSE) \in logs
    /\ \A i \in 1 .. 3 : IsCompletedOn(logs, "h1", "u1", DayBefore(Today, i))
    /\ resp.badges["h1"] = << >>
    /\ BadgeDays(resp.badges["h2"]) = {3}

\* The habits whose records differ between two stores.
ChangedHabits(before, after) ==
    { l.habitId : l \in (before \ after) \cup (after \ before) }

\* C15: a log write for habit A leaves the current streak, the longest
\* streak and the earned badges of every other habit B unchanged, and the
\* aggregate maps each habit identifier to the badges of its own streak.
C15_NoCrossHabitCoupling ==
    [][ /\ (resp'.op = "postLog" /\ logs' # logs)
           => \A q \in RouteLogRequests(Today) :
              PostLog(q[1], q[2], q[3], q[4])
              => /\ ChangedHabits(logs, logs') \subseteq { q[2] }
                 /\ \A x \in habits :
                        x.id # q[2]
                        => /\ calculateStreak(logs', x.id, x.userId, now, tz)
                              = calculateStreak(logs, x.id, x.userId, now, tz)
                           /\ getLongestStreak(logs', x.id, x.userId)
                              = getLongestStreak(logs, x.id, x.userId)
                           /\ calculateBadges(
                                calculateStreak(logs', x.id, x.userId, now, tz))
                              = calculateBadges(
                                  calculateStreak(logs, x.id, x.userId, now, tz))
        /\ resp'.op = "getBadges"
           => \A h \in DOMAIN resp'.badges :
                  BadgeDays(resp'.badges[h])
                    = { t \in Thresholds :
                          t <= RunEndingOn(
                                 { l \in logs : l.habitId = h },
                                 h, resp'.userId, Today) } ]_vars

\* C15 witness: today's record of h1 was written as not completed while h2
\* keeps its streak of three days and its badge.
C15_Witness ==
    /\ resp.op = "postLog"
    /\ resp.status = 200
    /\ LogRecord("u1", "h1", DayBefore(Today, 0), FALSE) \in logs
    /\ calculateStreak(logs, "h1", "u1", now, tz) = 0
    /\ calculateStreak(logs, "h2", "u1", now, tz) = 3
    /\ getLongestStreak(logs, "h2", "u1") = 3

\* C18: after DELETE /api/habits/:id succeeded for the habit's owner,
\* neither the habit nor any log record with that habitId exists.
C18_DeleteRemovesHabitAndLogs ==
    (resp.op = "deleteHabit" /\ resp.status = 200)
    => /\ \A x \in habits : x.id # resp.habitId
       /\ \A l \in logs : l.habitId # resp.habitId

\* C18 witness: h1, which had records, was deleted; the records of h2 are
\* still there.
C18_Witness ==
    /\ resp = DeleteResponse(200, "h1")
    /\ \E l \in logs : l.habitId = "h2"

\* Every log record belongs to the owner of the habit it refers to.
LogsBelongToOwner(hs, store) ==
    \A l \in store, x \in hs : x.id = l.habitId => x.userId = l.userId

\* Habit h is not a habit of user u.
NotOwned(hs, h, u) == \A x \in hs : x.id = h => x.userId # u

----------------------------------------------------------------------------
(* Failing reads and malformed dates: what is specified.                   *)

\* C16: if reading a habit's log records fails, calculateStreak and
\* getLongestStreak return 0 instead of raising, calculateStreaksForHabits
\* still returns an entry for every requested habit, and no stored record
\* is changed.
C16_ReadFailureIsSafe ==
    [][ /\ (resp'.op \in {"calculateStreak", "getLongestStreak"}
            /\ resp'.failed)
           => resp'.value = 0
        /\ resp'.op = "calculateStreaksForHabits"
           => /\ DOMAIN resp'.value = resp'.habitIds
              /\ \A h \in resp'.habitIds :
                     resp'.value[h]
                       = IF h \in resp'.failing THEN 0
                         ELSE calculateStreak(logs, h, resp'.userId, now, tz)
        /\ logs' = logs /\ habits' = habits ]_vars

\* C16 witness: the read of h1, completed today, failed and the read of h2
\* did not: the map has 0 for h1 and the streak of h2.
C16_Witness ==
    /\ resp.op = "calculateStreaksForHabits"
    /\ resp.failing = {"h1"}
    /\ IsCompletedOn(logs, "h1", "u1", DayBefore(Today, 0))
    /\ DOMAIN resp.value = {"h1", "h2"}
    /\ resp.value["h1"] = 0
    /\ resp.value["h2"] = 2

\* The records whose date is a day of the calendar.
CalendarRecords(store) == { l \in store : IsCalendarDate(l.date) }

\* C17: a record whose date is malformed or out of range is ignored by the
\* streak computations: the current streak and the longest streak equal
\* the values computed with those records removed.
C17_MalformedDatesIgnored ==
    /\ resp.op = "calculateStreak"
       => resp.value = calculateStreak(CalendarRecords(logs), resp.habitId,
                                       resp.userId, now, tz)
    /\ resp.op = "getLongestStreak"
       => resp.value = getLongestStreak(CalendarRecords(logs), resp.habitId,
                                        resp.userId)

----------------------------------------------------------------------------
(* The day-keys of the backward walk.                                      *)

\* Iterations of the walk whose day-keys are compared.
MaxExamined == 6

RECURSIVE Cursor(_, _, _)
\* currentDate at the start of iteration  i  of the walk (i = 0 is the first
\* iteration), while every examined day was completed.
Cursor(z, clock, i) ==
    IF i = 0 THEN WalkStart(clock)
    ELSE PreviousLocalDay(z, Cursor(z, clock, i - 1))

\* dateStr of iteration  i.
ExaminedKey(z, clock, i) == ToISODate(Cursor(z, clock, i))

\* C24: the day-keys the walk of calculateStreak examines are exactly today,
\* today-1, today-2, ...: iteration i examines day today-i, whatever the
\* time of day and the server's time zone (first iterations of the walk).
C24_WalkExaminesEachDayOnce ==
    resp.op = "calculateStreak" =>
        \A i \in 0 .. MaxExamined :
            i <= resp.value => ExaminedKey(tz, now, i) = DayBefore(Today, i)

----------------------------------------------------------------------------
(* Dates of the stored records against the day of the write.               *)

\* The day number of the server's local calendar day.
LocalToday == LocalTime(tz, now) \div MinutesPerDay

\* C23: a log request with a date in the future is rejected and writes
\* nothing, so no stored record has a calendar date later than the current
\* day (the UTC day or the server's local day, whichever is later).
C23_NoRecordAheadOfItsDay ==
    \A l \in logs :
        IsCalendarDate(l.date) =>
            DayNumber(ParseDate(l.date)) <= Max(Today, LocalToday)

----------------------------------------------------------------------------
(* GET /api/tracking/streaks, GET /api/tracking/stats                      *)

\* router.get('/streaks', protect, ...) for the authenticated user u.
GetStreaks(u) ==
    LET habitIds == HabitIdsOf(habits, u)
    IN  /\ resp' = [ op      |-> "getStreaks",
                     userId  |-> u,
                     status  |-> 200,
                     streaks |-> calculateStreaksForHabits(logs, {}, habitIds,
                                                           u, now, tz) ]
        /\ UNCHANGED <<habits, logs, now, tz, users, reqs>>

\* d.setDate(d.getDate() - n): the same wall-clock time  n  local calendar
\* days earlier.
LocalDaysBefore(z, t, n) == UTCOfLocal(z, LocalTime(z, t) - n * MinutesPerDay)

\* Days in 'totalPossibleLogs = habits.length * 30' and in
\* 'setDate(getDate() - 30)'.
StatsDays == 30

\* HabitLog.find({ userId, date: { $gte: startDate, $lte: endDate } }):
\* date strings of the form dddd-dd-dd compare as their digits do.
LogsInRange(store, u, startDate, endDate) ==
    { l \in store :
        /\ l.userId = u
        /\ DateCode(startDate) <= DateCode(l.date)
        /\ DateCode(l.date) <= DateCode(endDate) }

\* Math.round((completed / total) * 100) with total > 0: the nearest
\* integer, halves upwards.  (For totals of 30, 60 and 90 the double
\* quotient rounds as the exact one does.)
RoundPercent(completed, total) == (200 * completed + total) \div (2 * total)

\* A handler that also stores each computed streak on its habit.
GetStatsCaching(u) ==
    LET habitIds == HabitIdsOf(habits, u)
        streaks  == calculateStreaksForHabits(logs, {}, habitIds, u, now, tz)
    IN  /\ resp' = [ op |-> "getStats", userId |-> u, status |-> 200 ]
        /\ habits' = { IF x.userId = u
                       THEN [ id |-> x.id, userId |-> x.userId,
                              name |-> x.name, streak |-> streaks[x.id] ]
                       ELSE x : x \in habits }
        /\ UNCHANGED <<logs, now, tz, users, reqs>>

\* router.get('/stats', protect, ...) for the authenticated user u.
GetStats(u) ==
    LET habitIds  == HabitIdsOf(habits, u)
        streaks   == calculateStreaksForHabits(logs, {}, habitIds, u, now, tz)
        startDate == ToISODate(LocalDaysBefore(tz, now, StatsDays))
        endDate   == ToISODate(now)
        found     == LogsInRange(logs, u, startDate, endDate)
        completedLogs     == Cardinality({ l \in found : l.completed })
        totalPossibleLogs == Cardinality(habitIds) * StatsDays
    IN  /\ resp' = [ op             |-> "getStats",
                     userId         |-> u,
                     status         |-> 200,
                     totalHabits    |-> Cardinality(habitIds),
                     streaks        |-> streaks,
                     badges         |-> calculateBadgesForHabits(streaks),
                     completionRate |->
                         IF totalPossibleLogs > 0
                         THEN RoundPercent(completedLogs, totalPossibleLogs)
                         ELSE 0,
                     last30Days     |-> [ completed |-> completedLogs,
                                          total     |-> totalPossibleLogs ] ]
        /\ UNCHANGED <<habits, logs, now, tz, users, reqs>>

----------------------------------------------------------------------------
(* SpecReads: the reading routes and functions on a bounded family of      *)
(* stores.                                                                 *)

\* Longest run of completed days of habit h3 in the stores of the family.
MaxStatsRun == 31

ReadStores(T) ==
    { SeedLogs \cup RunOf("u2", "h3", T, 0, n) : n \in 0 .. MaxStatsRun }

InitReads ==
    /\ habits = InitialHabits
    /\ now = RouteClock
    /\ tz \in Zones
    /\ logs \in ReadStores(DayNumber(now))
    /\ resp = NoResponse
    /\ reqs = << >>
    /\ users = InitialUsers

NextReads ==
    \/ \E u \in UserIds : GetStreaks(u)
    \/ \E u \in UserIds : GetBadges(u)
    \/ \E u \in UserIds : GetStats(u)
    \/ \E x \in habits : CallCalculateStreak(x.id, x.userId)
    \/ \E x \in habits : CallGetLongestStreak(x.id, x.userId)
    \/ \E x \in habits :
           CallCalculateBadges(calculateStreak(logs, x.id, x.userId, now, tz))
    \/ \E x \in habits :
           CallGetNextBadge(calculateStreak(logs, x.id, x.userId, now, tz))
    \/ \E x \in habits :
           CallGetBadgeProgress(calculateStreak(logs, x.id, x.userId, now, tz))

SpecReads == InitReads /\ [][NextReads]_vars

\* The operations that read.
ReadOps ==
    { "getStreaks", "getBadges", "getStats", "calculateStreak",
      "getLongestStreak", "calculateBadges", "getNextBadge",
      "getBadgeProgress" }

\* The request of a response: the operation and its arguments.
RequestOf(r) ==
    [ f \in DOMAIN r \cap { "op", "userId", "habitId", "arg" } |-> r[f] ]

C28_RateWithinBounds ==
    resp.op = "getStats" =>
        /\ resp.last30Days.total = resp.totalHabits * 30
        /\ resp.last30Days.completed <= resp.last30Days.total
        /\ 0 <= resp.completionRate
        /\ resp.completionRate <= 100

----------------------------------------------------------------------------
(* utils/streaks.js: calculateStreaksForHabits, one promise at a time.     *)

\* An assignment that replaces the object by one with the single entry.
AssignStreakAlone(streaks, habitId, value) == [h \in { habitId } |-> value]

\* streaks[habitId] = value
AssignStreak(streaks, habitId, value) ==
    [h \in DOMAIN streaks \cup { habitId } |->
        IF h = habitId THEN value ELSE streaks[h]]

\* calculateStreaksForHabits(habitIds, userId) is called: habitIds.map
\* starts one calculateStreak per habit id, each waiting for its query.
StreaksStart(u, habitIds) ==
    /\ Len(reqs) < MaxRequests
    /\ reqs' = Append(reqs, [ op |-> "streaksForHabits", userId |-> u,
                              habitIds |-> habitIds, pending |-> habitIds,
                              settled |-> << >>, streaks |-> EmptyObject,
                              pc |-> "all", status |-> 0, order |-> 0 ])
    /\ UNCHANGED <<habits, logs, now, tz, users, resp>>

\* The calculateStreak of habit h resolves and its callback stores the
\* value.
StreaksSettle(i, h) ==
    /\ reqs[i].op = "streaksForHabits" /\ reqs[i].pc = "all"
    /\ h \in reqs[i].pending
    /\ reqs' = [reqs EXCEPT
                  ![i].pending = @ \ { h },
                  ![i].settled = Append(@, h),
                  ![i].streaks =
                      AssignStreak(@, h, calculateStreak(logs, h,
                                            reqs[i].userId, now, tz))]
    /\ UNCHANGED <<habits, logs, now, tz, users, resp>>

\* Promise.all resolves when every callback has run: return streaks.
StreaksReturn(i) ==
    /\ reqs[i].op = "streaksForHabits" /\ reqs[i].pc = "all"
    /\ reqs[i].pending = {}
    /\ reqs' = Answer(reqs, i, 200)
    /\ resp' = [ op       |-> "calculateStreaksForHabits",
                 userId   |-> reqs[i].userId,
                 habitIds |-> reqs[i].habitIds,
                 settled  |-> reqs[i].settled,
                 value    |-> reqs[i].streaks ]
    /\ UNCHANGED <<habits, logs, now, tz, users>>

InitPromises ==
    /\ habits = InitialHabits
    /\ now = RouteClock
    /\ tz = ZoneUTC
    /\ logs \in { SeedLogs,
                  SeedLogs \cup RunOf("u2", "h3", DayNumber(now), 0, 2) }
    /\ resp = NoResponse
    /\ reqs = << >>
    /\ users = InitialUsers

NextPromises ==
    \/ \E u \in UserIds : StreaksStart(u, HabitIdsOf(habits, u))
    \/ \E i \in DOMAIN reqs : \E h \in HabitIds : StreaksSettle(i, h)
    \/ \E i \in DOMAIN reqs : StreaksReturn(i)

SpecPromises == InitPromises /\ [][NextPromises]_vars

\* C26: whatever the order in which the per-habit computations complete,
\* the mapping calculateStreaksForHabits returns has exactly one entry per
\* requested habit id, and the entry is that habit's calculateStreak value.
C26_OneEntryPerHabit ==
    resp.op = "calculateStreaksForHabits" =>
        /\ DOMAIN resp.value = resp.habitIds
        /\ \A h \in resp.habitIds :
               resp.value[h] = calculateStreak(logs, h, resp.userId, now, tz)

\* C26 witness: the computation of h2 completed before that of h1, and the
\* mapping returned holds 4 for h1 and 3 for h2.
C26_Witness ==
    /\ resp.op = "calculateStreaksForHabits"
    /\ resp.settled = << "h2", "h1" >>
    /\ resp.value["h1"] = 4
    /\ resp.value["h2"] = 3

----------------------------------------------------------------------------
(* SpecUnmark: marking and unmarking the days of a run.                    *)

\* Length of the run of habit h1 the store starts with.
MaxUnmarkRun == 4

InitUnmark ==
    /\ habits = InitialHabits
    /\ now \in { At(2024, 10, 28, 12), RouteClock }
    /\ tz \in Zones
    /\ logs = RunOf("u1", "h1", DayNumber(now), 0, MaxUnmarkRun)
    /\ resp = NoResponse
    /\ reqs = << >>
    /\ users = InitialUsers

NextUnmark ==
    \/ \E k \in 0 .. (MaxUnmarkRun - 1), c \in BOOLEAN :
           PostLog("u1", "h1", DayBefore(DayNumber(now), k), c)
    \/ \E x \in habits : CallCalculateStreak(x.id, x.userId)

SpecUnmark == InitUnmark /\ [][NextUnmark]_vars

\* C30: when habit h1 has current streak s and POST /api/tracking/log sets
\* the record of day today-k (0 <= k < s) to completed=false, the record is
\* kept as not completed and the current streak computed next is exactly k.
C30_UnmarkCutsStreak ==
    [][ \A k \in 0 .. (MaxUnmarkRun - 1) :
          LET d == DayBefore(Today, k)
          IN  ( /\ k < calculateStreak(logs, "h1", "u1", now, tz)
                /\ LogRecord("u1", "h1", d, TRUE) \in logs
                /\ resp'.op = "postLog" /\ resp'.status = 200
                /\ LogRecord("u1", "h1", d, FALSE) \in logs' )
              => /\ logs' = (logs \ { LogRecord("u1", "h1", d, TRUE) })
                              \cup { LogRecord("u1", "h1", d, FALSE) }
                 /\ calculateStreak(logs', "h1", "u1", now', tz') = k ]_vars

----------------------------------------------------------------------------
(* Log records and their habits.                                           *)

\* A DELETE of habit h has removed the habit and not yet its logs.
DeleteInProgress(h) ==
    \E i \in DOMAIN reqs :
        /\ reqs[i].op = "deleteHabit"
        /\ reqs[i].habitId = h
        /\ reqs[i].pc = "deleteMany"

\* C27: every log record refers to an existing habit: no log record remains
\* for a deleted habit once its DELETE is over, also when the DELETE
\* interleaves with a POST /api/tracking/log that has passed its ownership
\* check, and when the DELETE fails between its two removals.
C27_NoOrphanLogs ==
    \A l \in logs :
        \/ \E x \in habits : x.id = l.habitId
        \/ DeleteInProgress(l.habitId)

----------------------------------------------------------------------------
(* POST /api/auth/register, POST /api/auth/login                           *)

\* models/Habit.js: the names of the default habits of a new user.
DEFAULT_HABITS ==
    <<
      <<"W", "a", "k", "e", " ", "u", "p", " ", "e", "a", "r", "l", "y">>,
      <<"N", "o", " ", "s", "n", "o", "o", "z", "i", "n", "g">>,
      <<"D", "r", "i", "n", "k", " ", "w", "a", "t", "e", "r">>,
      <<"G", "y", "m">>,
      <<"S", "t", "r", "e", "t", "c", "h", "i", "n", "g">>,
      <<"R", "e", "a", "d", "i", "n", "g">>,
      <<"M", "e", "d", "i", "t", "a", "t", "i", "o", "n">>,
      <<"S", "t", "u", "d", "y">>,
      <<"S", "k", "i", "n", "c", "a", "r", "e">>,
      <<"L", "i", "m", "i", "t", " ", "s", "o", "c", "i", "a", "l", " ",
        "m", "e", "d", "i", "a">>,
      <<"N", "o", " ", "a", "l", "c", "o", "h", "o", "l">>,
      <<"T", "r", "a", "c", "k", " ", "e", "x", "p", "e", "n", "s", "e", "s">>
    >>

UpperCaseLetters ==
    { "A", "B", "C", "D", "E", "F", "G", "H", "I", "J", "K", "L", "M",
      "N", "O", "P", "Q", "R", "S", "T", "U", "V", "W", "X", "Y", "Z" }

LowerCaseLetters ==
    { "a", "b", "c", "d", "e", "f", "g", "h", "i", "j", "k", "l", "m",
      "n", "o", "p", "q", "r", "s", "t", "u", "v", "w", "x", "y", "z" }

Digits == { "0", "1", "2", "3", "4", "5", "6", "7", "8", "9" }

\* .matches(/[A-Z]/) and the like: some character of the text is in the
\* class.
Matches(class, text) == \E i \in 1 .. Len(text) : text[i] \in class

\* .isEmail(): the addresses of the requests, and the one that is none.
IsEmail(email) == email # "not-an-email"

\* .normalizeEmail(): the address in lower case.
NormalizeEmail(email) ==
    CASE email = "New@x.io" -> "new@x.io"
      [] email = "Ann@x.io" -> "ann@x.io"
      [] OTHER -> email

\* validateRegister and handleValidationErrors: no rule is broken.
ValidateRegister(name, email, password) ==
    /\ Len(Trim(name)) >= 2 /\ Len(Trim(name)) <= 50
    /\ IsEmail(email)
    /\ Len(Trim(password)) >= 6
    /\ Matches(UpperCaseLetters, Trim(password))
    /\ Matches(LowerCaseLetters, Trim(password))
    /\ Matches(Digits, Trim(password))

\* validateLogin and handleValidationErrors.
ValidateLogin(email, password) ==
    /\ IsEmail(email)
    /\ Len(Trim(password)) >= 1

\* User.findOne({ email })
UsersWithEmail(us, email) == { x \in us : x.email = email }

\* A schema whose validators accept every document.
UserValidatesAny(doc) == TRUE

\* userSchema: the validators Mongoose runs before a document is saved:
\* name, email and password are required, with bounds on their lengths.
UserValidates(doc) ==
    /\ "name" \in DOMAIN doc
    /\ Len(doc.name) >= 2 /\ Len(doc.name) <= 50
    /\ "email" \in DOMAIN doc
    /\ "password" \in DOMAIN doc
    /\ Len(doc.password) >= 6

\* The _id of a new document of the User collection.
NewUserId(us) == "u" \o ToString(Cardinality(us) + 1)

\* userSchema.pre('save'): the document as it is stored, its password
\* replaced by its hash.
StoredUser(id, doc) ==
    [ f \in DOMAIN doc \cup { "id" } |->
        IF f = "id" THEN id
        ELSE IF f = "password" THEN Hash(doc.password)
        ELSE doc[f] ]

\* DEFAULT_HABITS.map(habit => ({ userId: user._id, name: habit.name, ... }))
DefaultHabitsOf(userId) ==
    { [ id     |-> userId \o "-" \o ToString(i),
        userId |-> userId,
        name   |-> DEFAULT_HABITS[i] ] : i \in DOMAIN DEFAULT_HABITS }

\* rateLimiter.js: authLimiter = rateLimit({ windowMs: 15 * 60 * 1000,
\* max: 5, ... }), in minutes.
AuthWindow == 15
AuthMax == 5

\* authLimiter on a request from address ip at time t, after the requests
\* served: TRUE when the limiter answers 429 itself.
authLimiter(served, ip, t) ==
    Cardinality({ j \in DOMAIN served :
                    /\ served[j].ip = ip
                    /\ ~ served[j].limited
                    /\ t - served[j].at < AuthWindow }) >= AuthMax

\* Most requests to the auth endpoints.
MaxAuthRequests == 6

\* The request as the server has seen it: its address, its time, and
\* whether a limiter answered it.
AuthRequest(ip, limited) == [ ip |-> ip, at |-> now, limited |-> limited ]

AuthResponse(op, status, email) ==
    [ op |-> op, status |-> status, email |-> email ]

\* sendTokenResponse(user, statusCode, res): the token names the user.
TokenResponse(op, status, user) ==
    [ op |-> op, status |-> status, email |-> user.email, token |-> user.id ]

\* router.post('/register', /* authLimiter, */ validateRegister, ...): a
\* request from address ip; fails names the storage operation that fails,
\* if any.
Register(ip, name, email, password, fails) ==
    LET body == [ name     |-> Escape(Trim(name)),
                  email    |-> NormalizeEmail(email),
                  password |-> Trim(password) ]
        doc  == [ email |-> body.email, password |-> body.password ]
        user == StoredUser(NewUserId(users), doc)
    IN  /\ Len(reqs) < MaxAuthRequests
        /\ reqs' = Append(reqs, AuthRequest(ip, FALSE))
        /\ IF ~ ValidateRegister(name, email, password)
           THEN /\ resp' = AuthResponse("register", 400, email)
                /\ UNCHANGED <<habits, users>>
           ELSE IF UsersWithEmail(users, body.email) # {}
           THEN /\ resp' = AuthResponse("register", 400, body.email)
                /\ UNCHANGED <<habits, users>>
           ELSE IF ~ UserValidates(doc)
           THEN /\ resp' = AuthResponse("register", 500, body.email)
                /\ UNCHANGED <<habits, users>>
           ELSE IF fails = "insertMany"
           THEN /\ users' = users \cup { user }
                /\ resp' = AuthResponse("register", 500, body.email)
                /\ UNCHANGED habits
           ELSE /\ users' = users \cup { user }
                /\ habits' = habits \cup DefaultHabitsOf(user.id)
                /\ resp' = TokenResponse("register", 201, user)
        /\ UNCHANGED <<logs, now, tz>>

\* router.post('/login', /* authLimiter, */ validateLogin, ...): a request
\* from address ip.
Login(ip, email, password) ==
    LET found == UsersWithEmail(users, NormalizeEmail(email))
    IN  /\ Len(reqs) < MaxAuthRequests
        /\ reqs' = Append(reqs, AuthRequest(ip, FALSE))
        /\ IF ~ ValidateLogin(email, password)
           THEN resp' = AuthResponse("login", 400, email)
           ELSE IF found = {}
           THEN resp' = AuthResponse("login", 401, NormalizeEmail(email))
           ELSE LET user == CHOOSE x \in found : TRUE
                IN  IF user.password # Hash(Trim(password))
                    THEN resp' = AuthResponse("login", 401, user.email)
                    ELSE resp' = TokenResponse("login", 200, user)
        /\ UNCHANGED <<habits, logs, now, tz, users>>

\* Minutes the clock advances between requests, and how often at most.
AuthStep == 10
MaxAuthTicks == 1

\* Ten minutes pass.
AuthTick ==
    /\ now < RouteClock + MaxAuthTicks * AuthStep
    /\ now' = now + AuthStep
    /\ UNCHANGED <<habits, logs, tz, resp, reqs, users>>

Weak == <<"P", "a", "1">>

\* The bodies of the register requests <<name, email, password>>: a new
\* address in two spellings, a taken address, a weak password.
RegisterRequests ==
    { << <<"C", "y">>, "new@x.io", Passw0rd >>,
      << <<"C", "y">>, "New@x.io", Passw0rd >>,
      << <<"A", "n", "n">>, "ann@x.io", Passw0rd >>,
      << <<"C", "y">>, "new@x.io", Weak >> }

\* The bodies of the login requests <<email, password>>.
LoginRequests ==
    { << "ann@x.io", Passw0rd >>,
      << "ann@x.io", Weak >>,
      << "new@x.io", Passw0rd >> }

\* The addresses the requests come from.
AuthIps == { "ip1", "ip2" }

InitAuth ==
    /\ habits = InitialHabits
    /\ logs = SeedLogs
    /\ now = RouteClock
    /\ tz = ZoneUTC
    /\ resp = NoResponse
    /\ reqs = << >>
    /\ users = InitialUsers

NextAuth ==
    \/ \E ip \in AuthIps, q \in RegisterRequests,
          fails \in { "none", "insertMany" } :
           Register(ip, q[1], q[2], q[3], fails)
    \/ \E ip \in AuthIps, q \in LoginRequests : Login(ip, q[1], q[2])
    \/ AuthTick

SpecAuth == InitAuth /\ [][NextAuth]_vars

\* The habits of the user with the given id.
HabitsOfUser(hs, userId) == { h \in hs : h.userId = userId }

\* C21: a register request with a valid, unused email and a valid password
\* is answered 201, and straight afterwards the new user owns exactly the
\* 12 default habits.
C21_RegisterCreatesDefaults ==
    [][ \A ip \in AuthIps, q \in RegisterRequests :
          ( /\ ValidateRegister(q[1], q[2], q[3])
            /\ UsersWithEmail(users, NormalizeEmail(q[2])) = {}
            /\ Register(ip, q[1], q[2], q[3], "none") )
          => /\ resp'.status = 201
             /\ \E u \in users' \ users :
                    /\ u.email = NormalizeEmail(q[2])
                    /\ Cardinality(HabitsOfUser(habits', u.id)) = 12
                    /\ { h.name : h \in HabitsOfUser(habits', u.id) }
                         = { DEFAULT_HABITS[i] : i \in 1 .. 12 } ]_vars

\* C22: from one address at most 5 requests to register and login are
\* served within 15 minutes: a request that follows 5 served requests of
\* its address within the window is answered 429 by the limiter.
C22_AuthRateLimited ==
    \A i \in DOMAIN reqs :
        authLimiter(SubSeq(reqs, 1, i - 1), reqs[i].ip, reqs[i].at)
            => reqs[i].limited

============================================================================
